---- MODULE Spec2Model ----
(***************************************************************************)
(* A model of package recontext (src/context.go): the emptyCtx singletons, *)
(* valueCtx, cancelCtx, and the operations WithCancel, WithValue, Cause,   *)
(* Done, Err and the cancel functions, run by concurrent goroutines.       *)
(* Every step between two synchronisation points (a mutex operation or an  *)
(* atomic load/store of cancelCtx.done) is one action.                     *)
(***************************************************************************)
EXTENDS Integers, Sequences, FiniteSets, TLC

\* ---- bounds of the model ----
MaxNodes == 3      \* contexts derived by the concurrent goroutines
MaxSeqNodes == 3   \* contexts derived by the single goroutine
NumThreads == 2    \* goroutines
MaxOps == 4        \* calls of the exported functions in one run

Threads == 1..NumThreads
MaxPtr == 2 + (IF MaxNodes > MaxSeqNodes THEN MaxNodes ELSE MaxSeqNodes)
Ptr == 1..MaxPtr

\* ---- values of the program ----
Nil == "nil"
Canceled == "context canceled"
cancelCtxKey == "&cancelCtxKey"
closedchan == "closedchan"
Keys == {"a", "b"}
Vals == {1, 2}
\* the key and value the concurrent specification attaches
WrapKeys == {"a"}
WrapVals == {1}
ZeroTime == "0001-01-01T00:00:00Z"
\* a nil Context, and keys WithValue refuses: nil and a key of slice type
NilContext == 0
NonComparableKeys == {"[]int{1}"}
BadKeys == {Nil} \cup NonComparableKeys

VARIABLES
    background, todo,   \* the package variables holding the two emptyCtx pointers
    ctxs,               \* the heap: pointer -> the immutable part of a context
    mu,                 \* cancelCtx.mu: the goroutine holding it, or Nil
    done,               \* cancelCtx.done: Nil, closedchan, or the channel it made
    closed,             \* the channels that have been closed
    children,           \* cancelCtx.children (a nil map is the empty set)
    err, cause,         \* cancelCtx.err, cancelCtx.cause
    th,                 \* each goroutine's position and locals
    live,               \* contexts returned to the program by a constructor
    recorded,           \* history: how many times err was assigned, per context
    ops                 \* history: how many exported functions have been called

vars == <<background, todo, ctxs, mu, done, closed, children, err, cause, th,
          live, recorded, ops>>

heapVars == <<background, todo, ctxs>>
histVars == <<recorded>>

\* ---- the three concrete context types ----
emptyCtx(p) == p \in DOMAIN ctxs /\ ctxs[p].kind = "emptyCtx"
valueCtx(p) == p \in DOMAIN ctxs /\ ctxs[p].kind = "valueCtx"
cancelCtx(p) == p \in DOMAIN ctxs /\ ctxs[p].kind = "cancelCtx"

Background == background
TODO == todo

newEmptyCtx == [kind |-> "emptyCtx", Context |-> 0, key |-> Nil, val |-> 0]
newCancelCtx(parent) == [kind |-> "cancelCtx", Context |-> parent, key |-> Nil, val |-> 0]
newValueCtx(parent, key, val) == [kind |-> "valueCtx", Context |-> parent, key |-> key, val |-> val]

\* A Value result: nil, a plain value, or a *cancelCtx.
NilAny == <<"nil">>
AnyVal(v) == <<"val", v>>
AnyCancelCtx(p) == <<"*cancelCtx", p>>
IsCancelCtx(r) == r[1] = "*cancelCtx"

\* func value(c Context, key any) any: the loop over the built-in types.
RECURSIVE value_shadowed(_, _)
value_shadowed(c, key) ==
    IF valueCtx(c) THEN
        LET up == value_shadowed(ctxs[c].Context, key)
        IN  IF up # NilAny THEN up
            ELSE IF key = ctxs[c].key THEN AnyVal(ctxs[c].val) ELSE NilAny
    ELSE IF cancelCtx(c) THEN
        IF key = cancelCtxKey THEN AnyCancelCtx(c) ELSE value_shadowed(ctxs[c].Context, key)
    ELSE NilAny

RECURSIVE value_errgate(_, _)
value_errgate(c, key) ==
    IF valueCtx(c) THEN
        IF key = ctxs[c].key THEN AnyVal(ctxs[c].val) ELSE value_errgate(ctxs[c].Context, key)
    ELSE IF cancelCtx(c) THEN
        IF key = cancelCtxKey THEN AnyCancelCtx(c)
        ELSE IF err[c] # Nil THEN NilAny
        ELSE value_errgate(ctxs[c].Context, key)
    ELSE NilAny

RECURSIVE value_loop(_, _)
value_loop(c, key) ==
    IF valueCtx(c) THEN
        IF key = ctxs[c].key THEN AnyVal(ctxs[c].val) ELSE value_loop(ctxs[c].Context, key)
    ELSE IF cancelCtx(c) THEN
        IF key = cancelCtxKey THEN AnyCancelCtx(c) ELSE value_loop(ctxs[c].Context, key)
    ELSE NilAny

value(c, key) == value_loop(c, key)

emptyCtx_Value(c, key) == NilAny
valueCtx_Value(c, key) ==
    IF ctxs[c].key = key THEN AnyVal(ctxs[c].val) ELSE value(ctxs[c].Context, key)
cancelCtx_Value(c, key) ==
    IF key = cancelCtxKey THEN AnyCancelCtx(c) ELSE value(ctxs[c].Context, key)

\* Context.Value through the interface.
Value(c, key) ==
    IF valueCtx(c) THEN valueCtx_Value(c, key)
    ELSE IF cancelCtx(c) THEN cancelCtx_Value(c, key)
    ELSE emptyCtx_Value(c, key)

\* The receiver of a method valueCtx does not define (Done, Err, Deadline):
\* Go promotes it from the embedded Context, so the call lands on the first
\* context above that is not a valueCtx.
RECURSIVE Promoted(_)
Promoted(c) == IF valueCtx(c) THEN Promoted(ctxs[c].Context) ELSE c

emptyCtx_Deadline(c) == <<ZeroTime, FALSE>>
emptyCtx_Done_closed(c) == closedchan
emptyCtx_Done(c) == Nil
emptyCtx_Err(c) == Nil

\* cancelCtx embeds Context and defines no Deadline: the call is promoted again.
RECURSIVE Deadline(_)
Deadline(c) ==
    IF emptyCtx(c) THEN emptyCtx_Deadline(c) ELSE Deadline(ctxs[c].Context)

\* what c.Err(), c.Done() and Cause(c) return when they run with no other
\* goroutine in the way (Done before the lazy creation reads Nil here)
ErrOf(c) == IF emptyCtx(Promoted(c)) THEN emptyCtx_Err(Promoted(c)) ELSE err[Promoted(c)]
DoneOf(c) == IF emptyCtx(Promoted(c)) THEN emptyCtx_Done(Promoted(c)) ELSE done[Promoted(c)]
CauseOf(c) ==
    LET cc == Value(c, cancelCtxKey)
    IN  IF IsCancelCtx(cc) THEN cause[cc[2]] ELSE Nil

\* The nearest cancelCtx at or above c, skipping valueCtx layers; 0 when the
\* chain holds none. Stated over the parent edges, not through Value.
RECURSIVE NearestCancel(_)
NearestCancel(c) ==
    IF cancelCtx(c) THEN c
    ELSE IF valueCtx(c) THEN NearestCancel(ctxs[c].Context)
    ELSE 0

\* ---- goroutines ----
\* pc: where the goroutine is; op: the exported function it is running;
\* c: that function's context (for WithCancel the new child); recv: the
\* receiver of the method it is in; d, err, cause, rm: locals and arguments;
\* pre: what held when the function was called.
IdleT == [pc |-> "idle", op |-> Nil, c |-> 0, recv |-> 0, d |-> Nil, rm |-> FALSE,
          err |-> Nil, cause |-> Nil, pre |-> FALSE]

Panicked == \E t \in Threads : th[t].pc = "panic"
At(t, pc) == th[t].pc = pc /\ ~Panicked
Step(t, rec) == th' = [th EXCEPT ![t] = rec]

Unlocked == 0
IsClosed(d) == d \in closed
MakeChan(p) == "chan@" \o ToString(p)

Init ==
    /\ background = 1
    /\ todo = 2
    /\ ctxs = <<newEmptyCtx, newEmptyCtx>>
    /\ mu = [p \in Ptr |-> Unlocked]
    /\ done = [p \in Ptr |-> Nil]
    /\ closed = {closedchan}
    /\ children = [p \in Ptr |-> {}]
    /\ err = [p \in Ptr |-> Nil]
    /\ cause = [p \in Ptr |-> Nil]
    /\ th = [t \in Threads |-> IdleT]
    /\ live = {1, 2}
    /\ recorded = [p \in Ptr |-> 0]
    /\ ops = 0

\* ---- calls and returns that touch no shared state ----

\* where cancel goes when it returns
cancel_return(rec) ==
    [rec EXCEPT !.pc = IF rec.op = "WithCancel" THEN "WithCancel.return"
                       ELSE "CancelFunc.return"]

\* a Done method has returned rec.d to its caller: the user, propagateCancel
\* (if done == nil return), or parentCancelCtx (done == closedchan || done == nil)
AfterDone(rec) ==
    IF rec.op = "Done" THEN [rec EXCEPT !.pc = "Done.return"]
    ELSE IF rec.op = "WithCancel"
    THEN [rec EXCEPT !.pc = IF rec.d = Nil THEN "WithCancel.return"
                            ELSE "propagateCancel.select"]
    ELSE IF rec.d = closedchan \/ rec.d = Nil THEN cancel_return(rec)
    ELSE [rec EXCEPT !.pc = "parentCancelCtx"]

\* the call c.Done() through the Context interface
CallDone(rec, c) ==
    IF emptyCtx(Promoted(c))
    THEN AfterDone([rec EXCEPT !.recv = Promoted(c), !.d = emptyCtx_Done(Promoted(c))])
    ELSE [rec EXCEPT !.pc = "Done", !.recv = Promoted(c)]

\* Cause has returned rec.cause to its caller: the user, or propagateCancel,
\* which goes on to child.cancel(false, parent.Err(), Cause(parent))
AfterCause(rec) ==
    IF rec.op = "Cause" THEN [rec EXCEPT !.pc = "Cause.return"]
    ELSE [rec EXCEPT !.pc = "cancel", !.rm = FALSE]

\* the call Cause(c): the lookup of the nearest cancelCtx
CallCause(rec, c) ==
    LET cc == Value(c, cancelCtxKey)
    IN  IF IsCancelCtx(cc) THEN [rec EXCEPT !.pc = "Cause.lock", !.recv = cc[2]]
        ELSE AfterCause([rec EXCEPT !.cause = Nil])

\* an Err method has returned rec.err to its caller: the user, or propagateCancel,
\* which goes on to Cause(parent)
AfterErr(rec) ==
    IF rec.op = "Err" THEN IdleT
    ELSE CallCause(rec, ctxs[rec.c].Context)

\* the call c.Err() through the Context interface
CallErr(rec, c) ==
    IF emptyCtx(Promoted(c))
    THEN AfterErr([rec EXCEPT !.recv = Promoted(c), !.err = emptyCtx_Err(Promoted(c))])
    ELSE [rec EXCEPT !.pc = "Err.lock", !.recv = Promoted(c)]

\* ---- the constructors ----

\* reflect.TypeOf(key).Comparable()
Comparable(key) == key \notin NonComparableKeys

\* the three tests that open WithValue; each one panics
WithValue_panics_parent_only(parent, key) == parent = NilContext
WithValue_panics(parent, key) ==
    parent = NilContext \/ key = Nil \/ ~Comparable(key)

\* func WithValue(parent Context, key, val any) Context
WithValue(t, parent, key, val) ==
    /\ At(t, "idle")
    /\ parent \in live \cup {NilContext}
    /\ IF WithValue_panics(parent, key)
       THEN /\ Step(t, [IdleT EXCEPT !.pc = "panic", !.op = "WithValue"])
            /\ UNCHANGED <<ctxs, live>>
       ELSE /\ ctxs' = Append(ctxs, newValueCtx(parent, key, val))
            /\ live' = live \cup {Len(ctxs) + 1}
            /\ UNCHANGED th
    /\ UNCHANGED <<background, todo, mu, done, closed, children, err, cause, histVars>>

\* withCancel: if parent == nil { panic }
withCancel_panics(parent) == parent = NilContext

\* func WithCancel, withCancel, newCancelCtx, and propagateCancel up to its
\* call of parent.Done()
WithCancel(t, parent) ==
    /\ At(t, "idle")
    /\ parent \in live \cup {NilContext}
    /\ IF withCancel_panics(parent)
       THEN /\ Step(t, [IdleT EXCEPT !.pc = "panic", !.op = "WithCancel"])
            /\ UNCHANGED ctxs
       ELSE /\ ctxs' = Append(ctxs, newCancelCtx(parent))
            /\ Step(t, CallDone([IdleT EXCEPT !.op = "WithCancel", !.c = Len(ctxs) + 1,
                                              !.pre = IsClosed(DoneOf(parent))],
                                parent))
    /\ UNCHANGED <<background, todo, mu, done, closed, children, err, cause, live, histVars>>

\* WithCancel returns c and its CancelFunc to the caller
WithCancel_return(t) ==
    /\ At(t, "WithCancel.return")
    /\ live' = live \cup {th[t].c}
    /\ Step(t, IdleT)
    /\ UNCHANGED <<heapVars, mu, done, closed, children, err, cause, histVars>>

\* ---- Done ----

\* a goroutine calls c.Done()
Done(t, c) ==
    /\ At(t, "idle")
    /\ c \in live
    /\ Step(t, CallDone([IdleT EXCEPT !.op = "Done"], c))
    /\ UNCHANGED <<heapVars, mu, done, closed, children, err, cause, live, histVars>>

\* func (c *cancelCtx) Done(): the lock-free load
cancelCtx_Done_load(t) ==
    /\ At(t, "Done")
    /\ LET d == done[th[t].recv]
       IN  IF d # Nil
           THEN Step(t, AfterDone([th[t] EXCEPT !.d = d]))
           ELSE Step(t, [th[t] EXCEPT !.pc = "Done.lock"])
    /\ UNCHANGED <<heapVars, mu, done, closed, children, err, cause, live, histVars>>

\* c.mu.Lock() in Done
cancelCtx_Done_lock(t) ==
    /\ At(t, "Done.lock")
    /\ mu[th[t].recv] = Unlocked
    /\ mu' = [mu EXCEPT ![th[t].recv] = t]
    /\ Step(t, [th[t] EXCEPT !.pc = "Done.init"])
    /\ UNCHANGED <<heapVars, done, closed, children, err, cause, live, histVars>>

\* the value Done leaves in c.done, given what the second load saw
Done_recheck_skipped(c, d) == MakeChan(c)
Done_recheck(c, d) == IF d = Nil THEN MakeChan(c) ELSE d

\* the second load under the lock, the store, the deferred unlock, the return
cancelCtx_Done_init(t) ==
    /\ At(t, "Done.init")
    /\ LET c == th[t].recv
           d == Done_recheck(c, done[c])
       IN  /\ done' = [done EXCEPT ![c] = d]
           /\ mu' = [mu EXCEPT ![c] = Unlocked]
           /\ Step(t, AfterDone([th[t] EXCEPT !.d = d]))
    /\ UNCHANGED <<heapVars, closed, children, err, cause, live, histVars>>

Done_return(t) ==
    /\ At(t, "Done.return")
    /\ Step(t, IdleT)
    /\ UNCHANGED <<heapVars, mu, done, closed, children, err, cause, live, histVars>>

\* ---- Err ----

\* a goroutine calls c.Err()
Err(t, c) ==
    /\ At(t, "idle")
    /\ c \in live
    /\ Step(t, CallErr([IdleT EXCEPT !.op = "Err"], c))
    /\ UNCHANGED <<heapVars, mu, done, closed, children, err, cause, live, histVars>>

\* func (c *cancelCtx) Err(): c.mu.Lock()
cancelCtx_Err_lock(t) ==
    /\ At(t, "Err.lock")
    /\ mu[th[t].recv] = Unlocked
    /\ mu' = [mu EXCEPT ![th[t].recv] = t]
    /\ Step(t, [th[t] EXCEPT !.pc = "Err.read"])
    /\ UNCHANGED <<heapVars, done, closed, children, err, cause, live, histVars>>

\* err := c.err; c.mu.Unlock(); return err
cancelCtx_Err_read(t) ==
    /\ At(t, "Err.read")
    /\ mu' = [mu EXCEPT ![th[t].recv] = Unlocked]
    /\ Step(t, AfterErr([th[t] EXCEPT !.err = err[th[t].recv]]))
    /\ UNCHANGED <<heapVars, done, closed, children, err, cause, live, histVars>>

\* ---- Cause ----

\* a goroutine calls Cause(c)
Cause(t, c) ==
    /\ At(t, "idle")
    /\ c \in live
    /\ Step(t, CallCause([IdleT EXCEPT !.op = "Cause", !.c = c], c))
    /\ UNCHANGED <<heapVars, mu, done, closed, children, err, cause, live, histVars>>

\* cc.mu.Lock() in Cause
Cause_lock(t) ==
    /\ At(t, "Cause.lock")
    /\ mu[th[t].recv] = Unlocked
    /\ mu' = [mu EXCEPT ![th[t].recv] = t]
    /\ Step(t, [th[t] EXCEPT !.pc = "Cause.read"])
    /\ UNCHANGED <<heapVars, done, closed, children, err, cause, live, histVars>>

\* return cc.cause, with the deferred unlock
Cause_read(t) ==
    /\ At(t, "Cause.read")
    /\ mu' = [mu EXCEPT ![th[t].recv] = Unlocked]
    /\ Step(t, AfterCause([th[t] EXCEPT !.cause = cause[th[t].recv]]))
    /\ UNCHANGED <<heapVars, done, closed, children, err, cause, live, histVars>>

Cause_return(t) ==
    /\ At(t, "Cause.return")
    /\ Step(t, IdleT)
    /\ UNCHANGED <<heapVars, mu, done, closed, children, err, cause, live, histVars>>

\* ---- propagateCancel ----

\* the select on done: case <-done calls parent.Err(); default returns
propagateCancel_select_default(t) ==
    /\ At(t, "propagateCancel.select")
    /\ Step(t, [th[t] EXCEPT !.pc = "WithCancel.return"])
    /\ UNCHANGED <<heapVars, mu, done, closed, children, err, cause, live, histVars>>

propagateCancel_select(t) ==
    /\ At(t, "propagateCancel.select")
    /\ IF IsClosed(th[t].d)
       THEN Step(t, CallErr(th[t], ctxs[th[t].c].Context))
       ELSE Step(t, [th[t] EXCEPT !.pc = "WithCancel.return"])
    /\ UNCHANGED <<heapVars, mu, done, closed, children, err, cause, live, histVars>>

\* ---- cancel ----

\* the contexts below c that have been returned to the program
RECURSIVE Ancestors(_)
Ancestors(c) ==
    IF emptyCtx(c) THEN {} ELSE {ctxs[c].Context} \cup Ancestors(ctxs[c].Context)
Descendants(c) == {d \in live : c \in Ancestors(d)}

\* the CancelFunc WithCancel returns: func() { c.cancel(true, Canceled, nil) }
CancelFunc(t, c) ==
    /\ At(t, "idle")
    /\ c \in live
    /\ cancelCtx(c)
    /\ Step(t, [IdleT EXCEPT !.op = "CancelFunc", !.c = c, !.pc = "cancel",
                             !.rm = TRUE, !.err = Canceled, !.cause = Nil,
                             !.pre = (err[c] = Nil)])
    /\ UNCHANGED <<heapVars, mu, done, closed, children, err, cause, live, histVars>>

\* a call of the method c.cancel(removeFromParent, err, cause) from inside the
\* package
cancel(t, c, removeFromParent, e, ca) ==
    /\ At(t, "idle")
    /\ c \in live
    /\ cancelCtx(c)
    /\ Step(t, [IdleT EXCEPT !.op = "cancel", !.c = c, !.pc = "cancel",
                             !.rm = removeFromParent, !.err = e, !.cause = ca,
                             !.pre = (err[c] = Nil)])
    /\ UNCHANGED <<heapVars, mu, done, closed, children, err, cause, live, histVars>>

\* if cause == nil { cause = err }
DefaultCause_missing(e, ca) == ca
DefaultCause(e, ca) == IF ca = Nil THEN e ELSE ca

\* cancel: the panic on a nil err; else the cause default and c.mu.Lock()
cancel_lock(t) ==
    /\ At(t, "cancel")
    /\ IF th[t].err = Nil
       THEN /\ Step(t, [th[t] EXCEPT !.pc = "panic"])
            /\ UNCHANGED mu
       ELSE /\ mu[th[t].c] = Unlocked
            /\ mu' = [mu EXCEPT ![th[t].c] = t]
            /\ Step(t, [th[t] EXCEPT !.pc = "cancel.locked",
                          !.cause = DefaultCause(th[t].err, th[t].cause)])
    /\ UNCHANGED <<heapVars, done, closed, children, err, cause, live, histVars>>

\* whether cancel returns early: if c.err != nil
AlreadyCanceled_never(c) == FALSE
AlreadyCanceled_inverted(c) == err[c] = Nil
AlreadyCanceled(c) == err[c] # Nil

\* what cancel stores in c.done when no channel exists: c.done.Store(closedchan)
StoreClosed_fresh(c) == MakeChan(c)
StoreClosed(c) == closedchan

\* what the early return of cancel leaves in c.mu: c.mu.Unlock()
cancel_early_unlock_missing(t) == t
cancel_early_unlock(t) == Unlocked

\* cancel under the lock: the test of c.err (unlock and return when set), the
\* assignments of c.err and c.cause, and d, _ := c.done.Load() followed by the
\* store of closedchan or close(d). Closing a closed channel panics.
cancel_record(t) ==
    /\ At(t, "cancel.locked")
    /\ LET c == th[t].c
           d == done[c]
       IN  IF AlreadyCanceled(c)
           THEN /\ mu' = [mu EXCEPT ![c] = cancel_early_unlock(t)]
                /\ Step(t, cancel_return(th[t]))
                /\ UNCHANGED <<err, cause, recorded, done, closed>>
           ELSE /\ err' = [err EXCEPT ![c] = th[t].err]
                /\ cause' = [cause EXCEPT ![c] = th[t].cause]
                /\ recorded' = [recorded EXCEPT ![c] = @ + 1]
                /\ UNCHANGED mu
                /\ IF d = Nil
                   THEN /\ done' = [done EXCEPT ![c] = StoreClosed(c)]
                        /\ Step(t, [th[t] EXCEPT !.pc = "cancel.children"])
                        /\ UNCHANGED closed
                   ELSE IF IsClosed(d)
                   THEN /\ Step(t, [th[t] EXCEPT !.pc = "panic"])
                        /\ UNCHANGED <<done, closed>>
                   ELSE /\ closed' = closed \cup {d}
                        /\ Step(t, [th[t] EXCEPT !.pc = "cancel.children"])
                        /\ UNCHANGED done
    /\ UNCHANGED <<heapVars, children, live>>

\* the contexts the loop over c.children reaches: each child that is not yet
\* canceled is canceled with (err, cause) and its own children follow
Fanout_upward(c) ==
    {k \in Ptr : k = NearestCancel(ctxs[c].Context) /\ err[k] = Nil}

RECURSIVE Fanout(_)
Fanout(c) ==
    LET kids == {k \in children[c] : err[k] = Nil}
    IN  kids \cup UNION {Fanout(k) : k \in kids}

\* what cancel leaves in c.mu before it goes on to removeChild: c.mu.Unlock()
cancel_unlock_missing(t, removeFromParent) == IF removeFromParent THEN t ELSE Unlocked
cancel_unlock(t, removeFromParent) == Unlocked

\* cancel: for child := range c.children { child.cancel(false, err, cause) },
\* c.children = nil, c.mu.Unlock(), and with removeFromParent the call of
\* removeChild, parentCancelCtx and parent.Done(). Each child's cancel takes
\* the child's lock, so the loop runs when those locks are free.
cancel_children(t) ==
    /\ At(t, "cancel.children")
    /\ LET c == th[t].c
           F == Fanout(c)
       IN  /\ \A k \in F : mu[k] = Unlocked
           /\ err' = [k \in Ptr |-> IF k \in F THEN th[t].err ELSE err[k]]
           /\ cause' = [k \in Ptr |-> IF k \in F THEN th[t].cause ELSE cause[k]]
           /\ done' = [k \in Ptr |-> IF k \in F /\ done[k] = Nil THEN StoreClosed(k) ELSE done[k]]
           /\ closed' = closed \cup {done[k] : k \in {x \in F : done[x] # Nil}}
           /\ recorded' = [k \in Ptr |-> IF k \in F THEN recorded[k] + 1 ELSE recorded[k]]
           /\ children' = [k \in Ptr |-> IF k \in F \cup {c} THEN {} ELSE children[k]]
           /\ mu' = [mu EXCEPT ![c] = cancel_unlock(t, th[t].rm)]
           /\ IF th[t].rm
              THEN Step(t, CallDone(th[t], ctxs[c].Context))
              ELSE Step(t, cancel_return(th[t]))
    /\ UNCHANGED <<heapVars, live>>

\* func parentCancelCtx after its tests of done: the lookup of the nearest
\* cancelCtx p and the comparison of p.done.Load() with done
parentCancelCtx(t) ==
    /\ At(t, "parentCancelCtx")
    /\ LET parent == ctxs[th[t].c].Context
           p == Value(parent, cancelCtxKey)
       IN  IF ~IsCancelCtx(p) THEN Step(t, cancel_return(th[t]))
           ELSE IF done[p[2]] # th[t].d THEN Step(t, cancel_return(th[t]))
           ELSE Step(t, [th[t] EXCEPT !.pc = "removeChild.lock", !.recv = p[2]])
    /\ UNCHANGED <<heapVars, mu, done, closed, children, err, cause, live, histVars>>

\* removeChild: p.mu.Lock()
removeChild_lock(t) ==
    /\ At(t, "removeChild.lock")
    /\ mu[th[t].recv] = Unlocked
    /\ mu' = [mu EXCEPT ![th[t].recv] = t]
    /\ Step(t, [th[t] EXCEPT !.pc = "removeChild.delete"])
    /\ UNCHANGED <<heapVars, done, closed, children, err, cause, live, histVars>>

\* delete(p.children, child) on a map held as a set (a nil map is the empty set)
delete_inserts(m, child) == m \cup {child}
delete(m, child) == m \ {child}

\* removeChild: delete(p.children, child); p.mu.Unlock()
removeChild_delete(t) ==
    /\ At(t, "removeChild.delete")
    /\ children' = [children EXCEPT ![th[t].recv] = delete(@, th[t].c)]
    /\ mu' = [mu EXCEPT ![th[t].recv] = Unlocked]
    /\ Step(t, cancel_return(th[t]))
    /\ UNCHANGED <<heapVars, done, closed, err, cause, live, histVars>>

\* the CancelFunc returns
CancelFunc_return(t) ==
    /\ At(t, "CancelFunc.return")
    /\ Step(t, IdleT)
    /\ UNCHANGED <<heapVars, mu, done, closed, children, err, cause, live, histVars>>

\* ---- the specifications ----

\* the steps inside the functions, for goroutine t
Inside(t) ==
    \/ WithCancel_return(t)
    \/ cancelCtx_Done_load(t)
    \/ cancelCtx_Done_lock(t)
    \/ cancelCtx_Done_init(t)
    \/ Done_return(t)
    \/ cancelCtx_Err_lock(t)
    \/ cancelCtx_Err_read(t)
    \/ Cause_lock(t)
    \/ Cause_read(t)
    \/ Cause_return(t)
    \/ propagateCancel_select(t)
    \/ cancel_lock(t)
    \/ cancel_record(t)
    \/ cancel_children(t)
    \/ parentCancelCtx(t)
    \/ removeChild_lock(t)
    \/ removeChild_delete(t)
    \/ CancelFunc_return(t)

\* A call of an exported function: one more call within the bound, made by
\* the first goroutine that is outside every function (goroutines outside
\* every function hold no state, so which of them makes the call is no choice).
Call(t) ==
    /\ ops < MaxOps
    /\ th[t].pc = "idle"
    /\ \A u \in Threads : u < t => th[u].pc # "idle"
    /\ ops' = ops + 1

\* the goroutines run concurrently; they derive contexts from Background()
\* and from what they derived, and attach values with one key
Next ==
    \E t \in Threads :
        \/ /\ Call(t)
           /\ Len(ctxs) < 2 + MaxNodes
           /\ \E parent \in live \ {TODO}, key \in WrapKeys, val \in WrapVals :
                 WithValue(t, parent, key, val)
        \/ /\ Call(t)
           /\ Len(ctxs) < 2 + MaxNodes
           /\ \E parent \in live \ {TODO} : WithCancel(t, parent)
        \/ Call(t) /\ \E c \in live : CancelFunc(t, c)
        \/ Call(t) /\ \E c \in live : Done(t, c)
        \/ Call(t) /\ \E c \in live : Err(t, c)
        \/ Call(t) /\ \E c \in live : Cause(t, c)
        \/ Inside(t) /\ UNCHANGED ops

Spec == Init /\ [][Next]_vars

\* the scheduler runs every goroutine that can take a step
FairSpec == Spec /\ \A t \in Threads : WF_vars(Inside(t) /\ UNCHANGED ops)

\* the parents the single goroutine derives from: Background() or TODO() for
\* the first context, Background() or a derived context for the later ones
SeqParents == IF Len(ctxs) > 2 THEN live \ {TODO} ELSE live

\* one goroutine derives contexts with every key and value, cancels them and
\* asks for Cause, one call after the other
NextSeq ==
    \/ /\ Call(1)
       /\ Len(ctxs) < 2 + MaxSeqNodes
       /\ \E parent \in SeqParents, key \in Keys, val \in Vals :
             WithValue(1, parent, key, val)
    \/ /\ Call(1)
       /\ Len(ctxs) < 2 + MaxSeqNodes
       /\ \E parent \in SeqParents : WithCancel(1, parent)
    \/ Call(1) /\ \E c \in live : CancelFunc(1, c)
    \/ Call(1) /\ \E c \in live : Cause(1, c)
    \/ Inside(1) /\ UNCHANGED ops

SpecSeq == Init /\ [][NextSeq]_vars

\* one goroutine that also hands the constructors a nil parent and keys they
\* refuse, and calls cancel itself, with and without an err
NextMisuse ==
    \/ /\ Call(1)
       /\ Len(ctxs) < 2 + MaxSeqNodes
       /\ \E parent \in live \cup {NilContext}, key \in WrapKeys \cup BadKeys, val \in WrapVals :
             WithValue(1, parent, key, val)
    \/ /\ Call(1)
       /\ Len(ctxs) < 2 + MaxSeqNodes
       /\ \E parent \in live \cup {NilContext} : WithCancel(1, parent)
    \/ Call(1) /\ \E c \in live : CancelFunc(1, c)
    \/ Call(1) /\ \E c \in live, rm \in BOOLEAN, e \in {Nil, Canceled} :
                     cancel(1, c, rm, e, Nil)
    \/ Call(1) /\ \E c \in live : Done(1, c)
    \/ Inside(1) /\ UNCHANGED ops

SpecMisuse == Init /\ [][NextMisuse]_vars

\* ---- the properties ----

\* C1: when the cancel function of a cancelCtx P that was not yet canceled
\* returns, every cancelCtx derived below P before the call has a non-nil err,
\* and Cause of every context derived below P equals the cause recorded on P.
\* (One goroutine: every descendant that exists at the return was derived
\* before the call.)
C1_CancelReachesDescendants ==
    \A t \in Threads :
        (th[t].pc = "CancelFunc.return" /\ th[t].pre) =>
            \A D \in Descendants(th[t].c) :
                /\ cancelCtx(D) => err[D] # Nil
                /\ CauseOf(D) = cause[th[t].c]

\* C2: WithCancel(parent), called when parent's done channel is closed,
\* returns a child whose err is parent.Err(), whose cause is Cause(parent),
\* whose done channel is closed, and that is in no children map.
C2_BornCanceled ==
    \A t \in Threads :
        (th[t].pc = "WithCancel.return" /\ th[t].pre) =>
            LET c == th[t].c
                parent == ctxs[c].Context
            IN  /\ err[c] # Nil
                /\ err[c] = ErrOf(parent)
                /\ CauseOf(c) = CauseOf(parent)
                /\ cause[c] # Nil
                /\ IsClosed(DoneOf(c))
                /\ \A p \in Ptr : c \notin children[p]

\* a child born canceled under a valueCtx that wraps a canceled cancelCtx
C2_Witness ==
    \E t \in Threads :
        /\ th[t].pc = "WithCancel.return"
        /\ th[t].pre
        /\ valueCtx(ctxs[th[t].c].Context)
        /\ err[th[t].c] = Canceled

\* C3: however many cancel calls run on one cancelCtx, and however they
\* interleave, err is assigned at most once, the done channel is closed once
\* (a second close would panic), no call panics, and a call that finds err set
\* changes nothing but the lock it releases.
C3_Once ==
    /\ ~Panicked
    /\ \A c \in Ptr :
          /\ recorded[c] <= 1
          /\ recorded[c] = 1 <=> err[c] # Nil
          /\ err[c] # Nil => done[c] # Nil /\ IsClosed(done[c])

C3_LaterCallsNoOp ==
    \A t \in Threads :
        (th[t].pc = "cancel.locked" /\ err[th[t].c] # Nil /\ th'[t] # th[t]) =>
            UNCHANGED <<heapVars, done, closed, children, err, cause, live, recorded>>

C3_CancelExactlyOnce == []C3_Once /\ [][C3_LaterCallsNoOp]_vars

\* two concurrent invocations of one CancelFunc have both finished
C3_Witness ==
    /\ th[1].pc = "CancelFunc.return"
    /\ th[2].pc = "CancelFunc.return"
    /\ th[1].c = th[2].c
    /\ th[1].pre /\ th[2].pre
    /\ recorded[th[1].c] = 1
    /\ IsClosed(done[th[1].c])

\* C4: once a cancelCtx's err is non-nil, no later step of any operation
\* changes its err or its cause, or assigns them again.
C4_ErrAndCauseFrozen ==
    [][\A c \in Ptr :
          err[c] # Nil =>
              /\ err'[c] = err[c]
              /\ cause'[c] = cause[c]
              /\ recorded'[c] = recorded[c]]_vars

\* a canceled cancelCtx on which a second CancelFunc call, a Done, an Err or a
\* Cause call is under way
C4_Witness ==
    \E t \in Threads :
        /\ th[t].pc \in {"cancel.locked", "Done", "Err.read", "Cause.read"}
        /\ cancelCtx(IF th[t].op = "CancelFunc" THEN th[t].c ELSE th[t].recv)
        /\ err[IF th[t].op = "CancelFunc" THEN th[t].c ELSE th[t].recv] = Canceled
        /\ cause[IF th[t].op = "CancelFunc" THEN th[t].c ELSE th[t].recv] = Canceled

\* C5: once a cancelCtx's done slot holds a channel (one Done made, or
\* closedchan) no step replaces it, and every Done() call returns the channel
\* in the slot: all calls on one cancelCtx return the same channel.
C5_SlotKept ==
    \A c \in Ptr : done[c] # Nil => done'[c] = done[c]

C5_DoneReturnsSlot ==
    \A t \in Threads :
        (th[t].pc = "Done.return" /\ cancelCtx(th[t].recv)) =>
            th[t].d # Nil /\ th[t].d = done[th[t].recv]

C5_DoneIdentity == [][C5_SlotKept]_vars /\ []C5_DoneReturnsSlot

\* a Done() call that took the lock and found the slot filled by a concurrent
\* cancel, while the other goroutine's Done() on the same context returns
C5_Witness ==
    \E t, u \in Threads :
        /\ t # u
        /\ th[t].pc = "Done.init"
        /\ done[th[t].recv] = closedchan
        /\ th[u].pc = "Done.return"
        /\ th[u].recv = th[t].recv
        /\ th[u].d = closedchan

\* C6: Cause(s) returns the cause recorded on the nearest cancelCtx at or above
\* s, and nil when the chain holds none; the recorded cause is nil while err is
\* nil and equals err afterwards; after a CancelFunc has returned, Err and
\* Cause of its context are both Canceled.
C6_CauseOfNearest ==
    /\ \A s \in live :
          CauseOf(s) = IF NearestCancel(s) = 0 THEN Nil ELSE cause[NearestCancel(s)]
    /\ \A c \in Ptr :
          /\ err[c] = Nil => cause[c] = Nil
          /\ err[c] # Nil => cause[c] = err[c]
    /\ \A t \in Threads :
          /\ th[t].pc = "Cause.return" =>
                th[t].cause = IF NearestCancel(th[t].c) = 0 THEN Nil
                              ELSE cause[NearestCancel(th[t].c)]
          /\ th[t].pc = "CancelFunc.return" =>
                /\ ErrOf(th[t].c) = Canceled
                /\ CauseOf(th[t].c) = Canceled

\* Cause(s) returns Canceled for a valueCtx s over a canceled cancelCtx
C6_Witness ==
    \E t \in Threads :
        /\ th[t].pc = "Cause.return"
        /\ valueCtx(th[t].c)
        /\ th[t].cause = Canceled
        /\ \E r \in live : emptyCtx(r) /\ CauseOf(r) = Nil

\* the chain from c up to its root, as a sequence
RECURSIVE Chain(_)
Chain(c) == IF emptyCtx(c) THEN <<c>> ELSE <<c>> \o Chain(ctxs[c].Context)

\* the value of the first valueCtx of the chain ch that carries key, or nil
Lookup(ch, key) ==
    LET hits == {i \in 1..Len(ch) : valueCtx(ch[i]) /\ ctxs[ch[i]].key = key}
    IN  IF hits = {} THEN NilAny
        ELSE AnyVal(ctxs[ch[CHOOSE i \in hits : \A j \in hits : i <= j]].val)

\* C7: for every context and every key but the sentinel, Value returns the
\* value of the nearest valueCtx at or above it with that key, nil when there
\* is none, and the chain it walks ends at an emptyCtx.
C7_ValueNearest ==
    \A c \in DOMAIN ctxs :
        LET ch == Chain(c)
        IN  /\ emptyCtx(ch[Len(ch)])
            /\ \A key \in Keys : Value(c, key) = Lookup(ch, key)

\* an inner attachment shadows an outer one, looked up through a cancelCtx,
\* and the other key is found nowhere
C7_Witness ==
    \E c, v, w \in DOMAIN ctxs :
        /\ cancelCtx(c) /\ valueCtx(v) /\ valueCtx(w)
        /\ ctxs[c].Context = v /\ ctxs[v].Context = w
        /\ ctxs[v].key = "a" /\ ctxs[w].key = "a"
        /\ ctxs[v].val = 2 /\ ctxs[w].val = 1
        /\ Value(c, "a") = AnyVal(2)
        /\ Value(c, "b") = NilAny

\* C8: no step of any operation, cancel steps included, changes what Value
\* returns for a context that exists and a key.
C8_ValueUnchanged ==
    [][\A c \in DOMAIN ctxs : \A key \in Keys : Value(c, key)' = Value(c, key)]_vars

\* P = WithCancel(Background()), C = WithCancel(P), G = WithValue(C, "a", 1),
\* P canceled by its CancelFunc: G.Value("a") is 1
C8_Witness ==
    \E P, C, G \in live :
        /\ cancelCtx(P) /\ cancelCtx(C) /\ valueCtx(G)
        /\ ctxs[P].Context = Background
        /\ ctxs[C].Context = P
        /\ ctxs[G].Context = C
        /\ ctxs[G].key = "a" /\ ctxs[G].val = 1
        /\ err[P] = Canceled
        /\ th[1].pc = "idle"
        /\ Value(G, "a") = AnyVal(1)

\* C9: Background() and TODO() return the same pointers in every state, the
\* two differ, and each is an emptyCtx with Deadline() = (zero time, false), a
\* nil done channel that is never closed, a nil Err() and a nil Value(k).
C9_Empty(e) ==
    /\ emptyCtx(e)
    /\ Deadline(e) = <<ZeroTime, FALSE>>
    /\ DoneOf(e) = Nil
    /\ ~IsClosed(DoneOf(e))
    /\ ErrOf(e) = Nil
    /\ CauseOf(e) = Nil
    /\ \A key \in Keys \cup {cancelCtxKey} : Value(e, key) = NilAny

C9_State ==
    /\ Background # TODO
    /\ C9_Empty(Background)
    /\ C9_Empty(TODO)
    /\ \A t \in Threads :
          (th[t].pc = "Done.return" /\ th[t].recv \in {Background, TODO}) =>
              th[t].d = Nil /\ ~IsClosed(th[t].d)

C9_EmptySingletons ==
    []C9_State /\ [][Background' = Background /\ TODO' = TODO]_vars

\* Background().Done() returns while a context derived from Background() is
\* canceled
C9_Witness ==
    \E t \in Threads, c \in live :
        /\ th[t].pc = "Done.return"
        /\ th[t].recv = Background
        /\ cancelCtx(c) /\ ctxs[c].Context = Background
        /\ err[c] = Canceled

\* a cancelCtx whose parent chain holds no cancelCtx
Rootless(c) == cancelCtx(c) /\ NearestCancel(ctxs[c].Context) = 0

\* C10: a cancelCtx whose parent chain holds no cancelCtx is canceled by its
\* own CancelFunc (err Canceled and done closed when it returns), and its err
\* is set and its done channel closed by no step but a step of its own
\* CancelFunc.
C10_OnlyOwnCancel ==
    \A c \in DOMAIN ctxs :
        (/\ \/ err[c] = Nil /\ err'[c] # Nil
            \/ ~IsClosed(done[c]) /\ IsClosed(done'[c])
         /\ Rootless(c)) =>
            \E t \in Threads :
                /\ th[t].op = "CancelFunc"
                /\ th[t].c = c
                /\ th[t].pc = "cancel.locked"
                /\ th'[t].pc = "cancel.children"

C10_OwnCancelWorks ==
    \A t \in Threads :
        (th[t].pc = "CancelFunc.return" /\ Rootless(th[t].c)) =>
            err[th[t].c] = Canceled /\ IsClosed(done[th[t].c])

C10_RootlessCancel == [][C10_OnlyOwnCancel]_vars /\ []C10_OwnCancelWorks

\* the CancelFunc of a cancelCtx derived from Background() returns, while
\* another such cancelCtx, whose done channel exists, stays uncanceled
C10_Witness ==
    \E t \in Threads, r \in live :
        /\ th[t].pc = "CancelFunc.return"
        /\ th[t].pre
        /\ Rootless(th[t].c)
        /\ Rootless(r) /\ r # th[t].c
        /\ err[r] = Nil
        /\ done[r] # Nil /\ ~IsClosed(done[r])

\* C11: WithCancel with a nil parent, WithValue with a nil parent, a nil key
\* or a key of a non-comparable type, and cancel called with a nil err each
\* panic; the step into the panic creates no context and changes no err,
\* cause, done channel, children map or lock; no context is ever built on a nil
\* parent or with a refused key, and no err is recorded as nil.
C11_WellBuilt ==
    /\ \A p \in DOMAIN ctxs :
          /\ ~emptyCtx(p) => ctxs[p].Context \in DOMAIN ctxs
          /\ valueCtx(p) => ctxs[p].key \notin BadKeys
    /\ \A c \in Ptr : recorded[c] > 0 => err[c] # Nil

C11_Aborts ==
    \A t \in Threads :
        /\ (th[t].pc # "panic" /\ th'[t].pc = "panic") =>
              UNCHANGED <<heapVars, mu, done, closed, children, err, cause, live, recorded>>
        /\ \A key \in WrapKeys \cup BadKeys, val \in WrapVals :
              /\ WithValue(t, NilContext, key, val) => th'[t].pc = "panic"
              /\ key \in BadKeys =>
                    \A parent \in live :
                        WithValue(t, parent, key, val) => th'[t].pc = "panic"
        /\ WithCancel(t, NilContext) => th'[t].pc = "panic"
        /\ (th[t].pc = "cancel" /\ th[t].err = Nil /\ th'[t] # th[t]) =>
              th'[t].pc = "panic"

C11_MisuseAborts == []C11_WellBuilt /\ [][C11_Aborts]_vars

\* cancel called with a nil err has panicked on a context whose done channel
\* exists, beside a canceled context and a valueCtx
C11_Witness ==
    \E t \in Threads :
        /\ th[t].pc = "panic"
        /\ th[t].op = "cancel"
        /\ th[t].err = Nil
        /\ done[th[t].c] # Nil /\ ~IsClosed(done[th[t].c])
        /\ err[th[t].c] = Nil
        /\ \E c \in live : cancelCtx(c) /\ err[c] = Canceled

\* C12: when WithCancel(parent) returns, parent's done channel was not closed
\* at the call, and parent's chain holds a cancelCtx, the new context is in the
\* children map of the nearest cancelCtx at or above parent.
C12_ChildRegistered ==
    \A t \in Threads :
        (/\ th[t].pc = "WithCancel.return"
         /\ ~th[t].pre
         /\ NearestCancel(ctxs[th[t].c].Context) # 0) =>
            th[t].c \in children[NearestCancel(ctxs[th[t].c].Context)]

\* C13: when a WithCancel(P) and a call of P's CancelFunc that found P not yet
\* canceled have run concurrently and both are at their return, the new child
\* is canceled: its err is set and its done channel is closed.
C13_NoLostCancel ==
    \A t, u \in Threads :
        (/\ th[t].pc = "WithCancel.return"
         /\ th[u].pc = "CancelFunc.return"
         /\ th[u].pre
         /\ th[u].c = NearestCancel(ctxs[th[t].c].Context)) =>
            /\ err[th[t].c] # Nil
            /\ IsClosed(done[th[t].c])

\* the locks goroutine t holds, and the lock its next step acquires
Holds(t) == {c \in Ptr : mu[c] = t}
Wants(t) ==
    IF th[t].pc \in {"Done.lock", "Err.lock", "Cause.lock", "removeChild.lock"}
    THEN {th[t].recv}
    ELSE IF th[t].pc = "cancel" /\ th[t].err # Nil THEN {th[t].c}
    ELSE {}

\* C14: no goroutine that holds a cancelCtx's lock is about to acquire that
\* lock again or the lock of one of its ancestors, and from the end of the
\* loop over the children on (parent.Done(), parentCancelCtx, removeChild, the
\* return) cancel does not hold its own context's lock.
C14_LockOrder ==
    \A t \in Threads :
        /\ \A h \in Holds(t) : \A w \in Wants(t) : w # h /\ w \notin Ancestors(h)
        /\ (/\ th[t].op \in {"CancelFunc", "cancel"}
            /\ th[t].pc \in {"Done", "Done.lock", "Done.init", "parentCancelCtx",
                              "removeChild.lock", "removeChild.delete",
                              "CancelFunc.return"}) =>
              mu[th[t].c] # t

\* a cancel that has recorded its err is about to take the lock of its
\* parent cancelCtx in removeChild, holding no lock
C14_Witness ==
    \E t \in Threads :
        /\ th[t].pc = "removeChild.lock"
        /\ th[t].recv \in Ancestors(th[t].c)
        /\ err[th[t].c] = Canceled
        /\ Holds(t) = {}

\* C15: a cancelCtx whose err is recorded holds a closed done channel, and a
\* Done() call on it returns a closed channel, whether or not Done() was
\* called before the cancel; the step that records err stores closedchan when
\* the slot was nil and closes the slot's channel otherwise.
C15_Fired ==
    /\ \A c \in Ptr : err[c] # Nil => done[c] # Nil /\ IsClosed(done[c])
    /\ \A t \in Threads :
          (th[t].pc = "Done.return" /\ cancelCtx(th[t].recv) /\ err[th[t].recv] # Nil) =>
              IsClosed(th[t].d)

C15_RecordFires ==
    \A c \in Ptr :
        (err[c] = Nil /\ err'[c] # Nil) =>
            IF done[c] = Nil THEN done'[c] = closedchan
            ELSE done'[c] = done[c] /\ done[c] \in closed'

C15_NoUnfiredSignal == []C15_Fired /\ [][C15_RecordFires]_vars

\* Done() returns closedchan for a context canceled before any Done() call,
\* while another canceled context holds the channel a Done() call made
C15_Witness ==
    \E t \in Threads, c \in live :
        /\ th[t].pc = "Done.return"
        /\ cancelCtx(th[t].recv)
        /\ err[th[t].recv] = Canceled
        /\ th[t].d = closedchan
        /\ cancelCtx(c) /\ err[c] = Canceled
        /\ done[c] = MakeChan(c)

\* C16: a canceled cancelCtx whose lock is free has no children; when a
\* CancelFunc returns, its context is not in the children map of the nearest
\* cancelCtx above it; and the removeChild steps of a CancelFunc change no
\* children map, err, cause or done channel when the parent chain holds no
\* cancelCtx or the nearest one is already canceled.
C16_Cleared ==
    /\ \A c \in Ptr : (err[c] # Nil /\ mu[c] = Unlocked) => children[c] = {}
    /\ \A t \in Threads :
          (th[t].pc = "CancelFunc.return" /\ th[t].rm) =>
              \A p \in Ptr :
                  p = NearestCancel(ctxs[th[t].c].Context) => th[t].c \notin children[p]

C16_RemoveChildNoOp ==
    \A t \in Threads :
        (/\ th[t].op = "CancelFunc"
         /\ th[t].pc \in {"Done", "Done.lock", "Done.init", "parentCancelCtx",
                           "removeChild.lock", "removeChild.delete"}
         /\ th'[t] # th[t]
         /\ \/ NearestCancel(ctxs[th[t].c].Context) = 0
            \/ err[NearestCancel(ctxs[th[t].c].Context)] # Nil) =>
            UNCHANGED <<children, err, cause, done, closed>>

C17_ErrBehindClosedDone ==
    /\ ~Panicked
    /\ \A c \in Ptr : (done[c] # Nil /\ IsClosed(done[c])) => err[c] # Nil
    /\ \A t \in Threads :
          th[t].op = "WithCancel" =>
              /\ th[t].pc = "Err.read" => err[th[t].recv] # Nil
              /\ th[t].pc \in {"Cause.lock", "Cause.read", "cancel"} => th[t].err # Nil

\* a WithCancel called while parent's done channel was open saw it closed by
\* a concurrent CancelFunc of the parent and enters cancel with Canceled
C17_Witness ==
    \E t, u \in Threads :
        /\ th[t].op = "WithCancel"
        /\ th[t].pc = "cancel"
        /\ ~th[t].pre
        /\ th[t].err = Canceled
        /\ th[u].op = "CancelFunc"
        /\ th[u].pc = "CancelFunc.return"
        /\ th[u].c = Promoted(ctxs[th[t].c].Context)

\* every context below c, returned to the program or not
AllDescendants(c) == {d \in DOMAIN ctxs : c \in Ancestors(d)}

\* C18: no step of a CancelFunc of c, its removeChild steps included, changes
\* the err or the cause of a context that is neither c nor below c (its
\* ancestors and every other context), or closes the done channel of one.
C18_Frame ==
    \A t \in Threads :
        (th[t].op = "CancelFunc" /\ th'[t] # th[t]) =>
            \A x \in DOMAIN ctxs \ ({th[t].c} \cup AllDescendants(th[t].c)) :
                /\ err'[x] = err[x]
                /\ cause'[x] = cause[x]
                /\ (done'[x] \in closed') <=> (done[x] \in closed)
                /\ done[x] # Nil => done'[x] = done[x]

C18_NoUpwardOrSideways == [][C18_Frame]_vars

\* the CancelFunc of a child returns after its removeChild, its parent
\* cancelCtx and its sibling being uncanceled, the parent's done channel open
C18_Witness ==
    \E t \in Threads, S \in live :
        /\ th[t].pc = "CancelFunc.return"
        /\ th[t].pre
        /\ cancelCtx(ctxs[th[t].c].Context)
        /\ err[ctxs[th[t].c].Context] = Nil
        /\ done[ctxs[th[t].c].Context] = MakeChan(ctxs[th[t].c].Context)
        /\ ~IsClosed(done[ctxs[th[t].c].Context])
        /\ S # th[t].c
        /\ cancelCtx(S)
        /\ ctxs[S].Context = ctxs[th[t].c].Context
        /\ err[S] = Nil

\* C19: under weak fairness of every goroutine, every call of WithCancel, a
\* CancelFunc, Done, Err or Cause eventually returns, and a goroutine that is
\* in no call holds no lock.
C19_Released == \A t \in Threads : th[t].pc = "idle" => Holds(t) = {}

C19_DeadlockFree ==
    /\ []C19_Released
    /\ \A t \in Threads : (th[t].pc # "idle") ~> (th[t].pc = "idle" /\ Holds(t) = {})

\* a goroutine waits for the lock of a cancelCtx that another goroutine holds
\* in the middle of a cancel
C19_Witness ==
    \E t, u \in Threads :
        /\ t # u
        /\ Wants(t) # {}
        /\ \A w \in Wants(t) : mu[w] = u
        /\ th[u].pc = "cancel.children"
====
